---- MODULE Spec2Model ----
(***************************************************************************)
(* Model of the UIDT simulation backend.                                   *)
(*                                                                         *)
(*   "OSM Rough Backend/app.py"           simulate(): the /simulate        *)
(*                                        request pipeline                 *)
(*   "OSM Rough Backend/trace_to_json.py" convert(): FCD trace -> JSON     *)
(*                                                                         *)
(* Python floats are modelled as <<"f", n>> (the number n) or              *)
(* <<"nan", 0>> (float('nan')): every comparison with a NaN is false, as   *)
(* in Python.  External tools (the Overpass service, netconvert,           *)
(* randomTrips.py, sumo, pyproj) are black boxes whose outcome is chosen   *)
(* nondeterministically.                                                   *)
(***************************************************************************)
EXTENDS Integers, Sequences, FiniteSets, TLC

\* ------------------------------------------------------------- bounds

\* Coordinates of a request's bbox are drawn from 0..MaxCoord.
MaxCoord == 1
\* A raw trace document holds at most MaxDocLen elements.
MaxDocLen == 4

\* ------------------------------------------------------ Python values

\* float('nan')
NaN == <<"nan", 0>>

\* The float of the number n.
F(n) == <<"f", n>>

\* A raw value is <<kind, n>>:
\*   "num"  : the number n, or a string float() parses to n
\*   "nan"  : a NaN (JSON NaN, or the string "nan")
\*   "text" : anything float() raises on (a word, null, a list)
Num(n) == <<"num", n>>
NanItem == <<"nan", 0>>
TextItem == <<"text", 0>>

\* float(v) raises ValueError or TypeError (None is no float either).
FloatRaises(v) == v[1] \in {"text", "absent"}

\* float(v), for a v it does not raise on.
Float(v) == IF v[1] = "nan" THEN NaN ELSE F(v[2])

\* a < b on Python floats: false as soon as one side is a NaN.
FloatLt(a, b) == a[1] = "f" /\ b[1] = "f" /\ a[2] < b[2]

\* a <= b on Python floats.
FloatLe(a, b) == a[1] = "f" /\ b[1] = "f" /\ a[2] <= b[2]

\* A plausible slip: the first argument is returned unchanged.
PyMinFirst(a, b) == a

\* The builtin min(a, b): a, unless b < a.
PyMin(a, b) == IF FloatLt(b, a) THEN b ELSE a

\* The builtin max(a, b): a, unless b > a.
PyMax(a, b) == IF FloatLt(a, b) THEN b ELSE a

\* ------------------------------------------------- bbox normalisation

\* The value of bbox before normalisation: data.get('bbox').
\*   "absent" : no bbox key (None)
\*   "scalar" : a truthy value that cannot be iterated (a number)
\*   "list"   : a JSON array of raw values
AbsentBBox == [kind |-> "absent", items |-> << >>]
ScalarBBox == [kind |-> "scalar", items |-> << >>]
ListBBox(s) == [kind |-> "list", items |-> s]

\* `not bbox`
BBoxFalsy(b) == b.kind = "absent" \/ (b.kind = "list" /\ b.items = << >>)

\* lon1, lat1, lon2, lat2 = map(float, bbox) raises: bbox is not
\* iterable, has not exactly four values, or one of them is not a float.
UnpackRaises(b) ==
    \/ b.kind # "list"
    \/ Len(b.items) # 4
    \/ \E i \in 1..Len(b.items) : FloatRaises(b.items[i])

\* The bbox list [west, south, east, north] built by simulate().
NormalizeBBox(b) ==
    LET lon1 == Float(b.items[1])
        lat1 == Float(b.items[2])
        lon2 == Float(b.items[3])
        lat2 == Float(b.items[4])
        west == PyMin(lon1, lon2)
        east == PyMax(lon1, lon2)
        south == PyMin(lat1, lat2)
        north == PyMax(lat1, lat2)
    IN  <<west, south, east, north>>

\* No bbox computed (yet).
NoBBox == << >>

\* ------------------------------------------------ trace_to_json.py

\* An attribute a tag does not carry: get() returns None.
AbsentAttr == <<"absent", 0>>
NoneId == "None"

\* One element of a raw trace, in document order: a <timestep time=..>
\* opening tag, or a <vehicle id=.. x=.. y=..> inside the last opened one.
TimestepTag(t) == [tag |-> "timestep", time |-> t, id |-> NoneId,
                   x |-> AbsentAttr, y |-> AbsentAttr]
VehicleTag(i, vx, vy) == [tag |-> "vehicle", time |-> AbsentAttr, id |-> i,
                          x |-> vx, y |-> vy]

\* ET.parse(input_path).getroot().findall('timestep'): the timesteps of
\* the document, each with its vehicle children.  A vehicle outside every
\* timestep is a child of the root and is not found.
RECURSIVE Timesteps(_)
Timesteps(s) ==
    IF s = << >> THEN << >>
    ELSE LET init == Timesteps(SubSeq(s, 1, Len(s) - 1))
             e == s[Len(s)]
         IN  IF e.tag = "timestep"
             THEN Append(init, [time |-> e.time, vehicles |-> << >>])
             ELSE IF init = << >> THEN init
             ELSE [init EXCEPT ![Len(init)].vehicles = Append(@, e)]

\* timestep.get('time', '0')
TimeAttr(ts) == IF ts.time = AbsentAttr THEN Num(0) ELSE ts.time

\* A plausible slip: only the id is tested.
SkippedIdOnly(veh) == veh.id = NoneId

\* vid is None or x is None or y is None
Skipped(veh) == veh.id = NoneId \/ veh.x = AbsentAttr \/ veh.y = AbsentAttr

\* A plausible slip: x read as the latitude and y as the longitude.
EntrySwapped(time, veh) ==
    [time |-> time, lat |-> Float(veh.x), lon |-> Float(veh.y)]

\* entry = {'time': time, 'lat': float(y), 'lon': float(x)}
Entry(time, veh) ==
    [time |-> time, lat |-> Float(veh.y), lon |-> Float(veh.x)]

\* A plausible slip: insert(0, entry) instead of append(entry).
SetDefaultPrepend(vehicles, vid, entry) ==
    IF vid \in DOMAIN vehicles
    THEN [vehicles EXCEPT ![vid] = <<entry>> \o @]
    ELSE vehicles @@ (vid :> <<entry>>)

\* vehicles.setdefault(vid, []).append(entry)
SetDefaultAppend(vehicles, vid, entry) ==
    IF vid \in DOMAIN vehicles
    THEN [vehicles EXCEPT ![vid] = Append(@, entry)]
    ELSE vehicles @@ (vid :> <<entry>>)

\* The result of a conversion that raised.
Raised == [ok |-> FALSE, vehicles |-> << >>]

\* A plausible slip: break instead of continue on a record that is skipped.
RECURSIVE VehicleLoopBreak(_, _, _)
VehicleLoopBreak(vehs, time, vehicles) ==
    IF vehs = << >> THEN [ok |-> TRUE, vehicles |-> vehicles]
    ELSE LET veh == Head(vehs)
         IN  IF Skipped(veh) THEN [ok |-> TRUE, vehicles |-> vehicles]
             ELSE IF FloatRaises(veh.x) \/ FloatRaises(veh.y) THEN Raised
             ELSE VehicleLoopBreak(Tail(vehs), time,
                                   SetDefaultAppend(vehicles, veh.id, Entry(time, veh)))

\* for veh in timestep.findall('vehicle'): ...
RECURSIVE VehicleLoop(_, _, _)
VehicleLoop(vehs, time, vehicles) ==
    IF vehs = << >> THEN [ok |-> TRUE, vehicles |-> vehicles]
    ELSE LET veh == Head(vehs)
         IN  IF Skipped(veh) THEN VehicleLoop(Tail(vehs), time, vehicles)
             ELSE IF FloatRaises(veh.x) \/ FloatRaises(veh.y) THEN Raised
             ELSE VehicleLoop(Tail(vehs), time,
                              SetDefaultAppend(vehicles, veh.id, Entry(time, veh)))

\* for timestep in root.findall('timestep'): ...
RECURSIVE TimestepLoop(_, _)
TimestepLoop(steps, vehicles) ==
    IF steps = << >> THEN [ok |-> TRUE, vehicles |-> vehicles]
    ELSE LET ts == Head(steps)
         IN  IF FloatRaises(TimeAttr(ts)) THEN Raised
             ELSE LET r == VehicleLoop(ts.vehicles, Float(TimeAttr(ts)), vehicles)
                  IN  IF r.ok THEN TimestepLoop(Tail(steps), r.vehicles)
                      ELSE Raised

\* A trace file: absent or not well-formed XML (ET.parse raises), or a
\* document, given as its elements in document order.
NoTrace == [parses |-> FALSE, doc |-> << >>]
TraceDoc(s) == [parses |-> TRUE, doc |-> s]

\* convert(input_path, output_path): what is written to output_path under
\* the key 'vehicles', or the fact that an exception was raised.
convert(trace) ==
    IF ~trace.parses THEN Raised
    ELSE TimestepLoop(Timesteps(trace.doc), << >>)

\* ------------------------------------------------------- request data

\* new_road = data.get('new_road'): absent (None or empty), a RoadProposal
\* {from: [lat, lon], to: [lat, lon]}, or a truthy value without usable
\* 'from'/'to' endpoints.
AbsentRoad == [kind |-> "absent", from |-> <<0, 0>>, to |-> <<0, 0>>]
MalformedRoad == [kind |-> "malformed", from |-> <<0, 0>>, to |-> <<0, 0>>]
RoadProposal(f, t) == [kind |-> "valid", from |-> f, to |-> t]

\* The value of data.get('infra_type') when the key is absent.
AbsentInfra == "None"

\* request.json: a JSON object with its keys 'bbox', 'new_road' and
\* 'infra_type', or a truthy JSON value that is no object (an array, a
\* string, a number).  A missing or empty body is the object without keys.
ObjectBody(b, nr, it) ==
    [kind |-> "object", bbox |-> b, new_road |-> nr, infra_type |-> it]
NonObjectBody ==
    [kind |-> "other", bbox |-> AbsentBBox, new_road |-> AbsentRoad,
     infra_type |-> AbsentInfra]
EmptyBody == ObjectBody(AbsentBBox, AbsentRoad, AbsentInfra)

\* The raw values a bbox is made of.
Items == {Num(n) : n \in 0..MaxCoord} \cup {NanItem, TextItem}

\* The bbox values of the requests: nothing, a number, every list of four
\* raw values, and lists of a wrong length.
BBoxInputs ==
    {AbsentBBox, ScalarBBox}
    \cup {ListBBox(<<a, b, c, d>>) : a \in Items, b \in Items, c \in Items, d \in Items}
    \cup {ListBBox([i \in 1..n |-> Num(0)]) : n \in {0, 3, 5}}

NewRoads ==
    {AbsentRoad, MalformedRoad,
     RoadProposal(<<1, 2>>, <<3, 4>>), RoadProposal(<<5, 5>>, <<6, 7>>)}

InfraTypes == {AbsentInfra, "road", "flyover", "tunnel", "bridge"}

\* The request bodies: infra_type is varied where it is read.
Bodies ==
    {NonObjectBody}
    \cup {ObjectBody(b, nr, it) : b \in BBoxInputs, nr \in NewRoads, it \in InfraTypes}

\* ------------------------------------------------ files of DATA_DIR

\* by: the request that wrote the file (0: the file does not exist).
NoOsm == [by |-> 0, bbox |-> NoBBox]
NoNod == [by |-> 0, start |-> << >>, end |-> << >>]
NoEdg == [by |-> 0, attributes |-> << >>]
NoRoad == [nod |-> NoNod, edg |-> NoEdg]
NoNet == [by |-> 0, meta |-> "none", osm |-> NoOsm, road |-> NoRoad]
NoTrips == [by |-> 0, net |-> NoNet]
NoTraceFile == [by |-> 0, parses |-> FALSE, doc |-> << >>, net |-> NoNet,
                trips |-> NoTrips]
NoJson == [by |-> 0, vehicles |-> << >>]

\* What netconvert leaves in base.net.xml when it exits 0: XML that does
\* not parse, a net without a projParameter, a net with one.
NetMetas == {"unparseable", "unprojected", "projected"}

\* The traces sumo may leave in trace.xml when it exits 0.
SumoTraces ==
    {NoTrace,
     TraceDoc(<< >>),
     TraceDoc(<<TimestepTag(Num(0)), VehicleTag("veh0", Num(1), Num(2))>>),
     TraceDoc(<<TimestepTag(Num(0)), VehicleTag("veh0", TextItem, Num(2))>>)}

\* ------------------------------------------------------------- state

\* The requests (threads of the server).
Reqs == {1, 2}

VARIABLES
    SUMO_HOME,   \* whether the module found a SUMO installation
    files,       \* the files of DATA_DIR, shared by all requests
    pc,          \* per request: the statement simulate() is at
    data,        \* per request: request.json
    bbox,        \* per request: the local bbox after normalisation
    coords,      \* per request: the locals (x1, y1, x2, y2)
    attributes,  \* per request: the local attributes
    log,         \* per request: the stages run so far, with their outcome
    resp,        \* per request: the response returned
    cli          \* the command-line run of trace_to_json.py

vars == <<SUMO_HOME, files, pc, data, bbox, coords, attributes, log, resp, cli>>

NoCoords == << >>
NoAttributes == << >>
NoResp == [status |-> "none", http |-> 0, hasData |-> FALSE, data |-> << >>]

\* jsonify({'status': s, 'message': ...}), code
Response(s, code) == [status |-> s, http |-> code, hasData |-> FALSE, data |-> << >>]

\* A plausible slip: the simulation data left out of the success response.
SuccessWithoutData(d) == [status |-> "success", http |-> 200, hasData |-> FALSE, data |-> << >>]

\* jsonify({'status': 'success', 'message': ..., 'data': d}), 200 by default
Success(d) == [status |-> "success", http |-> 200, hasData |-> TRUE, data |-> d]

\* One entry of the log.
Ran(stage, ok, why) == [stage |-> stage, ok |-> ok, why |-> why]

\* ------------------------------------------------- simulate(): steps

\* return <response>: the request is over.
Return(r, response) ==
    /\ resp' = [resp EXCEPT ![r] = response]
    /\ pc' = [pc EXCEPT ![r] = "done"]

\* The statement at `label` is next.
Goto(r, label) ==
    /\ pc' = [pc EXCEPT ![r] = label]
    /\ UNCHANGED resp

\* A plausible slip: the status code left out of the handler's return.
UnexpectedWithoutCode(r) == Return(r, Response("error", 200))

\* except Exception as exc: return jsonify({'status': 'error', ...}), 500
Unexpected(r) == Return(r, Response("error", 500))

Logged(r, stage, ok, why) == log' = [log EXCEPT ![r] = Append(@, Ran(stage, ok, why))]

\* A plausible slip: the test of SUMO_HOME left out, so that the tools are
\* looked for only when they are run.
CheckSumoHomeSkipped(r) ==
    /\ pc[r] = "start"
    /\ Goto(r, "body")
    /\ UNCHANGED <<SUMO_HOME, files, data, bbox, coords, attributes, log, cli>>

\* if not SUMO_HOME: return ..., 400
CheckSumoHome(r) ==
    /\ pc[r] = "start"
    /\ IF ~SUMO_HOME
       THEN Return(r, Response("error", 400))
       ELSE Goto(r, "body")
    /\ UNCHANGED <<SUMO_HOME, files, data, bbox, coords, attributes, log, cli>>

\* data = request.json or {}; bbox = data.get('bbox');
\* new_road = data.get('new_road'); if not bbox: return ..., 400
\* A body that is no object has no get(): AttributeError.
ReadBody(r) ==
    /\ pc[r] = "body"
    /\ IF data[r].kind # "object" THEN Unexpected(r)
       ELSE IF BBoxFalsy(data[r].bbox) THEN Return(r, Response("error", 400))
       ELSE Goto(r, "normalize")
    /\ UNCHANGED <<SUMO_HOME, files, data, bbox, coords, attributes, log, cli>>

\* try: lon1, lat1, lon2, lat2 = map(float, bbox); ...; bbox = [...]
\* except Exception: return ..., 400
Normalize(r) ==
    /\ pc[r] = "normalize"
    /\ IF UnpackRaises(data[r].bbox)
       THEN Return(r, Response("error", 400)) /\ UNCHANGED bbox
       ELSE Goto(r, "fetch")
            /\ bbox' = [bbox EXCEPT ![r] = NormalizeBBox(data[r].bbox)]
    /\ UNCHANGED <<SUMO_HOME, files, data, coords, attributes, log, cli>>

\* A plausible slip: a failed fetch tried again instead of answered.
DownloadRetried(r) ==
    /\ pc[r] = "fetch"
    /\ \E ok \in BOOLEAN :
        /\ Logged(r, "fetch", ok, "")
        /\ IF ok
           THEN Goto(r, "netconvert")
                /\ files' = [files EXCEPT !.osm = [by |-> r, bbox |-> bbox[r]]]
           ELSE Goto(r, "fetch") /\ UNCHANGED files
    /\ UNCHANGED <<SUMO_HOME, data, bbox, coords, attributes, cli>>

\* 1. requests.get(overpass_url, timeout=60); r.raise_for_status();
\*    on an exception return ..., 500; else write map.osm
Download(r) ==
    /\ pc[r] = "fetch"
    /\ \E ok \in BOOLEAN :
        /\ Logged(r, "fetch", ok, "")
        /\ IF ok
           THEN Goto(r, "netconvert")
                /\ files' = [files EXCEPT !.osm = [by |-> r, bbox |-> bbox[r]]]
           ELSE Return(r, Response("error", 500)) /\ UNCHANGED files
    /\ UNCHANGED <<SUMO_HOME, data, bbox, coords, attributes, cli>>

\* A plausible slip: the test of new_road inverted.
AfterInitialConversionInverted(new_road) ==
    IF new_road.kind = "absent" THEN "project" ELSE "replace"

\* The statement after the first netconvert: if new_road: ... else: ...
AfterInitialConversion(new_road) ==
    IF new_road.kind # "absent" THEN "project" ELSE "replace"

\* 2. subprocess.run([NETCONVERT, '--osm-files', osm_file, '-o', base_net,
\*    ...], check=True): a non-zero exit raises CalledProcessError.
InitialConversion(r) ==
    /\ pc[r] = "netconvert"
    /\ \E ok \in BOOLEAN, meta \in NetMetas :
        /\ Logged(r, "netconvert", ok, "")
        /\ IF ok
           THEN Goto(r, AfterInitialConversion(data[r].new_road))
                /\ files' = [files EXCEPT !.base =
                       [by |-> r, meta |-> meta, osm |-> files.osm, road |-> NoRoad]]
           ELSE Unexpected(r) /\ UNCHANGED files
    /\ UNCHANGED <<SUMO_HOME, data, bbox, coords, attributes, cli>>

\* A node coordinate: a request value written as it is, or the x or the y
\* of transformer.transform(lon, lat).
RawCoord(v) == <<"raw", v, v>>
ProjectedX(lon, lat) == <<"x", lon, lat>>
ProjectedY(lon, lat) == <<"y", lon, lat>>

\* A plausible slip: the endpoints' [lat, lon] read as [lon, lat].
RawCoordsLatFirst(new_road) ==
    [x1 |-> RawCoord(new_road.from[1]), y1 |-> RawCoord(new_road.from[2]),
     x2 |-> RawCoord(new_road.to[1]), y2 |-> RawCoord(new_road.to[2])]

\* x1, y1 = new_road['from'][1], new_road['from'][0]
\* x2, y2 = new_road['to'][1], new_road['to'][0]      (Python indexes from 0)
RawCoords(new_road) ==
    [x1 |-> RawCoord(new_road.from[2]), y1 |-> RawCoord(new_road.from[1]),
     x2 |-> RawCoord(new_road.to[2]), y2 |-> RawCoord(new_road.to[1])]

\* lon1, lat1 = new_road['from'][1], new_road['from'][0]; ...
\* x1, y1 = transformer.transform(lon1, lat1); x2, y2 = ...
TransformedCoords(new_road) ==
    [x1 |-> ProjectedX(new_road.from[2], new_road.from[1]),
     y1 |-> ProjectedY(new_road.from[2], new_road.from[1]),
     x2 |-> ProjectedX(new_road.to[2], new_road.to[1]),
     y2 |-> ProjectedY(new_road.to[2], new_road.to[1])]

\* Why the try block of step 3 does not reach the transformed coordinates:
\* ET.parse(base_net) raises, no projParameter, pyproj cannot be imported,
\* CRS.from_proj4 / Transformer.from_crs / transform raises.
ProjectionOutcome(net, pyproj, transforms) ==
    IF net.by = 0 \/ net.meta = "unparseable" THEN "parse error"
    ELSE IF net.meta # "projected" THEN "no projection"
    ELSE IF ~pyproj THEN "no library"
    ELSE IF ~transforms THEN "transform exception"
    ELSE "transformed"

\* A plausible slip: the except clause of step 3 re-raises.
FallbackRaises(outcome) == outcome \in {"parse error", "transform exception"}

\* Whether an exception leaves step 3 with a road proposal: never, every
\* failure is caught by `except Exception` and falls back.
ProjectionRaises(outcome) == FALSE

\* 3. if new_road: try: ... except Exception: x1, y1 = ...
\* A new_road without 'from'/'to' raises in the try block and again in
\* the except clause: the outer handler answers 500.
Project(r) ==
    /\ pc[r] = "project"
    /\ \E pyproj \in BOOLEAN, transforms \in BOOLEAN :
        LET outcome == ProjectionOutcome(files.base, pyproj, transforms)
        IN  IF data[r].new_road.kind # "valid" \/ ProjectionRaises(outcome)
            THEN /\ Unexpected(r)
                 /\ Logged(r, "project", FALSE,
                           IF data[r].new_road.kind # "valid"
                           THEN "malformed new_road" ELSE outcome)
                 /\ UNCHANGED coords
            ELSE /\ Goto(r, "nodes")
                 /\ Logged(r, "project", TRUE, outcome)
                 /\ coords' = [coords EXCEPT ![r] =
                        IF outcome = "transformed"
                        THEN TransformedCoords(data[r].new_road)
                        ELSE RawCoords(data[r].new_road)]
    /\ UNCHANGED <<SUMO_HOME, files, data, bbox, attributes, cli>>

\* The text of custom.nod.xml: nodes "start" and "end".
NodeFile(r, c) == [by |-> r, start |-> <<c.x1, c.y1>>, end |-> <<c.x2, c.y2>>]

\* with open(nod, 'w') as f: ...            (the first write, lines 149-153)
WriteNodes(r) ==
    /\ pc[r] = "nodes"
    /\ files' = [files EXCEPT !.nod = NodeFile(r, coords[r])]
    /\ Logged(r, "nodes", TRUE, "")
    /\ Goto(r, "attributes")
    /\ UNCHANGED <<SUMO_HOME, data, bbox, coords, attributes, cli>>

BaseAttributes == <<"numLanes=3", "speed=33.33", "type=highway.motorway">>

\* A plausible slip: the priority attributes added before the test of the
\* type, so that a tunnel carries them too.
EdgeAttributesTunnelPriority(infra_type) ==
    IF infra_type \in {"flyover", "tunnel"}
    THEN BaseAttributes \o <<"priority=20", "shape=", "spreadType=center">>
         \o (IF infra_type = "flyover" THEN <<"name=Proposed Flyover">>
             ELSE <<"name=Proposed Tunnel">>)
    ELSE BaseAttributes

\* attributes = '...'; if infra_type == 'flyover': attributes += ...
\* elif infra_type == 'tunnel': attributes += ...
EdgeAttributes(infra_type) ==
    IF infra_type = "flyover"
    THEN BaseAttributes \o <<"priority=20", "shape=", "spreadType=center",
                             "name=Proposed Flyover">>
    ELSE IF infra_type = "tunnel"
    THEN BaseAttributes \o <<"name=Proposed Tunnel">>
    ELSE BaseAttributes

\* data.get('infra_type', 'road')
InfraType(body) == IF body.infra_type = AbsentInfra THEN "road" ELSE body.infra_type

\* infra_type = data.get('infra_type', 'road'); attributes = ...
SelectAttributes(r) ==
    /\ pc[r] = "attributes"
    /\ attributes' = [attributes EXCEPT ![r] = EdgeAttributes(InfraType(data[r]))]
    /\ Goto(r, "nodes2")
    /\ UNCHANGED <<SUMO_HOME, files, data, bbox, coords, log, cli>>

\* with open(nod, 'w') as f: ...           (the second write, lines 176-182)
RewriteNodes(r) ==
    /\ pc[r] = "nodes2"
    /\ files' = [files EXCEPT !.nod = NodeFile(r, coords[r])]
    /\ Logged(r, "nodes", TRUE, "")
    /\ Goto(r, "edges")
    /\ UNCHANGED <<SUMO_HOME, data, bbox, coords, attributes, cli>>

\* with open(edg, 'w') as f: ... <edge id="new_hwy" from="start" to="end" ...>
WriteEdges(r) ==
    /\ pc[r] = "edges"
    /\ files' = [files EXCEPT !.edg = [by |-> r, attributes |-> attributes[r]]]
    /\ Logged(r, "edges", TRUE, "")
    /\ Goto(r, "inject")
    /\ UNCHANGED <<SUMO_HOME, data, bbox, coords, attributes, cli>>

\* subprocess.run([NETCONVERT, '--sumo-net-file', base_net, '-n', nod,
\*                 '-e', edg, '-o', final_net, '--ignore-errors'], check=True)
\* netconvert cannot exit 0 without its input net.
Inject(r) ==
    /\ pc[r] = "inject"
    /\ \E ok \in BOOLEAN :
        LET done == ok /\ files.base.by # 0
        IN  /\ Logged(r, "inject", done, "")
            /\ IF done
               THEN Goto(r, "trips")
                    /\ files' = [files EXCEPT !.final =
                           [by |-> r, meta |-> files.base.meta, osm |-> files.base.osm,
                            road |-> [nod |-> files.nod, edg |-> files.edg]]]
               ELSE Unexpected(r) /\ UNCHANGED files
    /\ UNCHANGED <<SUMO_HOME, data, bbox, coords, attributes, cli>>

\* else: os.replace(base_net, final_net): FileNotFoundError without base_net
ReplaceNet(r) ==
    /\ pc[r] = "replace"
    /\ IF files.base.by # 0
       THEN Goto(r, "trips")
            /\ files' = [files EXCEPT !.final = files.base, !.base = NoNet]
       ELSE Unexpected(r) /\ UNCHANGED files
    /\ Logged(r, "replace", files.base.by # 0, "")
    /\ UNCHANGED <<SUMO_HOME, data, bbox, coords, attributes, cli>>

\* A plausible slip: check=True left out, so that the exit status of the
\* trip generator is ignored and the simulator is started all the same.
GenerateTripsUnchecked(r) ==
    /\ pc[r] = "trips"
    /\ \E ok \in BOOLEAN :
        LET done == ok /\ files.final.by # 0
        IN  /\ Logged(r, "randomTrips", done, "")
            /\ Goto(r, "sumo")
            /\ IF done
               THEN files' = [files EXCEPT !.trips = [by |-> r, net |-> files.final]]
               ELSE UNCHANGED files
    /\ UNCHANGED <<SUMO_HOME, data, bbox, coords, attributes, cli>>

\* 4. subprocess.run([sys.executable, RANDOM_TRIPS, '-n', final_net, '-e',
\*    '100', '-o', trips], check=True)
GenerateTrips(r) ==
    /\ pc[r] = "trips"
    /\ \E ok \in BOOLEAN :
        LET done == ok /\ files.final.by # 0
        IN  /\ Logged(r, "randomTrips", done, "")
            /\ IF done
               THEN Goto(r, "sumo")
                    /\ files' = [files EXCEPT !.trips = [by |-> r, net |-> files.final]]
               ELSE Unexpected(r) /\ UNCHANGED files
    /\ UNCHANGED <<SUMO_HOME, data, bbox, coords, attributes, cli>>

\* 5. subprocess.run([SUMO_BIN, '-n', final_net, '-r', trips,
\*    '--fcd-output', trace, '--begin', '0', '--end', '100'], check=True)
RunSumo(r) ==
    /\ pc[r] = "sumo"
    /\ \E ok \in BOOLEAN, t \in SumoTraces :
        LET done == ok /\ files.final.by # 0 /\ files.trips.by # 0
        IN  /\ Logged(r, "sumo", done, "")
            /\ IF done
               THEN Goto(r, "convert")
                    /\ files' = [files EXCEPT !.trace =
                           [by |-> r, parses |-> t.parses, doc |-> t.doc,
                            net |-> files.final, trips |-> files.trips]]
               ELSE Unexpected(r) /\ UNCHANGED files
    /\ UNCHANGED <<SUMO_HOME, data, bbox, coords, attributes, cli>>

\* A plausible slip: a failed conversion answered like any other failure.
ConversionFailedAsError(r) == Return(r, Response("error", 500))

\* except Exception as e: return jsonify({'status': 'warning', ...}), 200
ConversionFailed(r) == Return(r, Response("warning", 200))

\* 6. try: trace_to_json.convert(trace, trace_json_path) ...
ConvertTrace(r) ==
    /\ pc[r] = "convert"
    /\ LET out == convert(files.trace)
       IN  /\ Logged(r, "convert", out.ok, "")
           /\ IF out.ok
              THEN Goto(r, "load")
                   /\ files' = [files EXCEPT !.json = [by |-> r, vehicles |-> out.vehicles]]
              ELSE ConversionFailed(r) /\ UNCHANGED files
    /\ UNCHANGED <<SUMO_HOME, data, bbox, coords, attributes, cli>>

\* with open(trace_json_path, 'r') as f: simulation_data = json.load(f)
\* return jsonify({'status': 'success', ..., 'data': simulation_data})
LoadJson(r) ==
    /\ pc[r] = "load"
    /\ IF files.json.by # 0
       THEN Return(r, Success(files.json.vehicles))
       ELSE ConversionFailed(r)
    /\ UNCHANGED <<SUMO_HOME, files, data, bbox, coords, attributes, log, cli>>

\* One step of the request r.
simulate(r) ==
    \/ CheckSumoHome(r)
    \/ ReadBody(r)
    \/ Normalize(r)
    \/ Download(r)
    \/ InitialConversion(r)
    \/ Project(r)
    \/ WriteNodes(r)
    \/ SelectAttributes(r)
    \/ RewriteNodes(r)
    \/ WriteEdges(r)
    \/ Inject(r)
    \/ ReplaceNet(r)
    \/ GenerateTrips(r)
    \/ RunSumo(r)
    \/ ConvertTrace(r)
    \/ LoadJson(r)

\* ------------------------------------------- one request on the server

NoFiles ==
    [osm |-> NoOsm, base |-> NoNet, final |-> NoNet, nod |-> NoNod,
     edg |-> NoEdg, trips |-> NoTrips, trace |-> NoTraceFile, json |-> NoJson]

\* DATA_DIR is empty; request 1 arrives with some body.
Init ==
    /\ SUMO_HOME \in BOOLEAN
    /\ files = NoFiles
    /\ data \in {[r \in Reqs |-> IF r = 1 THEN b ELSE EmptyBody] : b \in Bodies}
    /\ pc = [r \in Reqs |-> IF r = 1 THEN "start" ELSE "idle"]
    /\ bbox = [r \in Reqs |-> NoBBox]
    /\ coords = [r \in Reqs |-> NoCoords]
    /\ attributes = [r \in Reqs |-> NoAttributes]
    /\ log = [r \in Reqs |-> << >>]
    /\ resp = [r \in Reqs |-> NoResp]
    /\ cli = "off"

Next == simulate(1)

Spec == Init /\ [][Next]_vars

\* ------------------------------------------ two requests on the server

\* ------------------------------- one request whose calls all return

\* Bodies that take the request through each path of simulate().
LiveBodies ==
    {NonObjectBody,
     ObjectBody(AbsentBBox, AbsentRoad, AbsentInfra),
     ObjectBody(ListBBox(<<Num(0), TextItem, Num(0), Num(0)>>), AbsentRoad, AbsentInfra),
     ObjectBody(ListBBox(<<Num(0), Num(0), Num(0), Num(0)>>), AbsentRoad, AbsentInfra),
     ObjectBody(ListBBox(<<Num(0), Num(0), Num(0), Num(0)>>), MalformedRoad, "tunnel"),
     ObjectBody(ListBBox(<<Num(0), Num(0), Num(0), Num(0)>>),
                RoadProposal(<<1, 2>>, <<3, 4>>), "flyover")}

InitLive ==
    /\ SUMO_HOME \in BOOLEAN
    /\ files = NoFiles
    /\ data \in {[r \in Reqs |-> IF r = 1 THEN b ELSE EmptyBody] : b \in LiveBodies}
    /\ pc = [r \in Reqs |-> IF r = 1 THEN "start" ELSE "idle"]
    /\ bbox = [r \in Reqs |-> NoBBox]
    /\ coords = [r \in Reqs |-> NoCoords]
    /\ attributes = [r \in Reqs |-> NoAttributes]
    /\ log = [r \in Reqs |-> << >>]
    /\ resp = [r \in Reqs |-> NoResp]
    /\ cli = "off"

\* requests.get has a timeout and subprocess.run blocks until the tool
\* exits: given that every call returns, the thread of the request takes
\* its next step.
SpecLive == InitLive /\ [][Next]_vars /\ WF_vars(Next)

\* The bodies of two requests served at the same time (app.run() serves
\* each request in a thread of its own): different boxes, one with a road.
ConcBodies ==
    {ObjectBody(ListBBox(<<Num(0), Num(0), Num(0), Num(0)>>), AbsentRoad, AbsentInfra),
     ObjectBody(ListBBox(<<Num(0), Num(0), Num(1), Num(1)>>),
                RoadProposal(<<1, 2>>, <<3, 4>>), "flyover")}

\* DATA_DIR is empty, SUMO is installed, and both requests have arrived.
InitConc ==
    /\ SUMO_HOME = TRUE
    /\ files = NoFiles
    /\ data \in [Reqs -> ConcBodies]
    /\ pc = [r \in Reqs |-> "start"]
    /\ bbox = [r \in Reqs |-> NoBBox]
    /\ coords = [r \in Reqs |-> NoCoords]
    /\ attributes = [r \in Reqs |-> NoAttributes]
    /\ log = [r \in Reqs |-> << >>]
    /\ resp = [r \in Reqs |-> NoResp]
    /\ cli = "off"

\* The threads are interleaved statement by statement.
NextConc == \E r \in Reqs : simulate(r)

SpecConc == InitConc /\ [][NextConc]_vars

\* ------------------------------- trace_to_json.py on the command line

\* The elements the raw traces given on the command line are made of.
Elements ==
    {TimestepTag(t) : t \in {AbsentAttr, Num(0), Num(1), NanItem, TextItem}}
    \cup {VehicleTag("veh0", Num(1), Num(2)),
          VehicleTag("veh0", Num(3), Num(4)),
          VehicleTag("veh1", Num(5), Num(6)),
          VehicleTag(NoneId, Num(1), Num(2)),
          VehicleTag("veh0", AbsentAttr, Num(2)),
          VehicleTag("veh1", TextItem, AbsentAttr),
          VehicleTag("veh1", TextItem, Num(2))}

\* The documents of at most MaxDocLen elements.
Docs == UNION {[1..n -> Elements] : n \in 0..MaxDocLen}

\* The trace files convert() is run on: no well-formed file, or a document.
\* (by = 3: the file was put there by the user of the command line.)
CliTraces ==
    {[by |-> 3, parses |-> t.parses, doc |-> t.doc, net |-> NoNet, trips |-> NoTrips]
        : t \in {NoTrace} \cup {TraceDoc(d) : d \in Docs}}

\* python trace_to_json.py: convert(args.infile, args.outfile) with the
\* defaults data/trace.xml and data/trace.json; an exception ends the run
\* before anything is written.
CliConvert ==
    /\ cli = "ready"
    /\ LET out == convert(files.trace)
       IN  IF out.ok
           THEN /\ files' = [files EXCEPT !.json = [by |-> 3, vehicles |-> out.vehicles]]
                /\ cli' = "done"
           ELSE /\ UNCHANGED files
                /\ cli' = "raised"
    /\ UNCHANGED <<SUMO_HOME, pc, data, bbox, coords, attributes, log, resp>>

\* No request runs; some trace file is given to the converter.
InitCli ==
    /\ SUMO_HOME = FALSE
    /\ files \in {[NoFiles EXCEPT !.trace = t] : t \in CliTraces}
    /\ data = [r \in Reqs |-> EmptyBody]
    /\ pc = [r \in Reqs |-> "idle"]
    /\ bbox = [r \in Reqs |-> NoBBox]
    /\ coords = [r \in Reqs |-> NoCoords]
    /\ attributes = [r \in Reqs |-> NoAttributes]
    /\ log = [r \in Reqs |-> << >>]
    /\ resp = [r \in Reqs |-> NoResp]
    /\ cli = "ready"

NextCli == CliConvert

SpecCli == InitCli /\ [][NextCli]_vars

\* ================================================================ claims

\* The raw bbox values of request 1, and whether it passed normalisation.
In == data[1].bbox.items
Normalized == bbox[1] # NoBBox

HasEntry(stage) == \E i \in DOMAIN log[1] : log[1][i].stage = stage
EntryOk(stage) == \E i \in DOMAIN log[1] : log[1][i].stage = stage /\ log[1][i].ok
Done == pc[1] = "done"

\* ---------------------------------------------------------------- C1
\* C1 as stated: the bbox normalised from [a,c,b,d] is the one normalised
\* from [c,a,d,b], the input with positions 1,2 and 3,4 exchanged.
C1_AdjacentSwap ==
    Normalized =>
        bbox[1] = NormalizeBBox(ListBBox(<<In[2], In[1], In[4], In[3]>>))

\* C1, amended: for bbox values that are numbers (no NaN), the bbox
\* normalised from [lon1,lat1,lon2,lat2] is the one normalised from the
\* input with its two corners exchanged, [lon2,lat2,lon1,lat1].
C1_CornerSwap ==
    (Normalized /\ \A i \in 1..4 : In[i][1] = "num") =>
        bbox[1] = NormalizeBBox(ListBBox(<<In[3], In[4], In[1], In[2]>>))

\* A normalised request whose corners differ in both coordinates, given
\* north-east corner first in longitude.
C1_Witness ==
    /\ Normalized
    /\ \A i \in 1..4 : In[i][1] = "num"
    /\ In[1][2] > In[3][2]
    /\ In[2][2] < In[4][2]

\* ---------------------------------------------------------------- C2
\* C2: for every bbox normalisation accepts, the canonical bbox has
\* west <= east and south <= north, west and east are among lon1, lon2,
\* south and north among lat1, lat2, and it is the bbox the map fetch uses.
C2_Canonical ==
    Normalized =>
        /\ FloatLe(bbox[1][1], bbox[1][3])
        /\ FloatLe(bbox[1][2], bbox[1][4])
        /\ {bbox[1][1], bbox[1][3]} \subseteq {Float(In[1]), Float(In[3])}
        /\ {bbox[1][2], bbox[1][4]} \subseteq {Float(In[2]), Float(In[4])}
        /\ (files.osm.by = 1 => files.osm.bbox = bbox[1])

\* ---------------------------------------------------------------- C3
\* A request without a usable bbox: no JSON object, no bbox in it, a bbox
\* that is no list of four values, or one with a value that is no number.
BBoxMissingOrMalformed ==
    \/ data[1].kind # "object"
    \/ data[1].bbox.kind # "list"
    \/ Len(In) # 4
    \/ \E i \in 1..Len(In) : In[i][1] = "text"

\* C3: a request whose bbox is missing or malformed, or made without
\* SUMO_HOME, makes no external call and is answered "error" with 400.
C3_Rejected400 ==
    (~SUMO_HOME \/ BBoxMissingOrMalformed) =>
        /\ log[1] = << >>
        /\ Done => (resp[1].status = "error" /\ resp[1].http = 400)

\* ---------------------------------------------------------------- C4
\* The stages that fetch the map or run an external tool.
ToolStages == {"fetch", "netconvert", "inject", "randomTrips", "sumo"}

\* C4: once the map fetch fails or a tool exits non-zero, no later stage
\* is run and the request is answered "error" with 500.
C4_ToolFailureAborts ==
    \A i \in DOMAIN log[1] :
        (log[1][i].stage \in ToolStages /\ ~log[1][i].ok) =>
            /\ i = Len(log[1])
            /\ Done
            /\ resp[1].status = "error"
            /\ resp[1].http = 500

\* The second netconvert run (the injection) has failed.
C4_Witness ==
    /\ Done
    /\ \E i \in DOMAIN log[1] : log[1][i].stage = "inject" /\ ~log[1][i].ok

\* ---------------------------------------------------------------- C5
\* Every stage up to the simulator succeeded and the conversion failed.
OnlyConversionFailed ==
    /\ log[1] # << >>
    /\ log[1][Len(log[1])].stage = "convert"
    /\ ~log[1][Len(log[1])].ok
    /\ EntryOk("sumo")
    /\ \A i \in 1..(Len(log[1]) - 1) : log[1][i].ok

\* C5: the answer is "warning" (with 200 and no data) exactly when every
\* stage up to the simulator succeeded and the trace conversion failed.
C5_WarningIffConversionFailed ==
    Done =>
        /\ resp[1].status = "warning" <=> OnlyConversionFailed
        /\ resp[1].status = "warning" => (resp[1].http = 200 /\ ~resp[1].hasData)

C5_Witness == Done /\ resp[1].status = "warning" /\ OnlyConversionFailed

\* ---------------------------------------------------------------- C6
NoNewRoad == data[1].kind = "object" /\ data[1].new_road.kind = "absent"

Count(stage) == Cardinality({i \in DOMAIN log[1] : log[1][i].stage = stage})

\* Without new_road: no injector step is run, no node or edge file is
\* written, netconvert runs once, and the trip generator and the
\* simulator read the final net.
C6_InjectorSkipped ==
    NoNewRoad =>
        /\ \A i \in DOMAIN log[1] :
              log[1][i].stage \notin {"project", "nodes", "edges", "inject"}
        /\ files.nod = NoNod /\ files.edg = NoEdg
        /\ Count("netconvert") <= 1
        /\ HasEntry("randomTrips") => Count("netconvert") = 1
        /\ files.trips.by # 0 => files.trips.net = files.final
        /\ files.trace.by # 0 =>
              (files.trace.net = files.final /\ files.trace.trips = files.trips)

\* C6: a request with a valid bbox and no new_road skips the injector,
\* and its final net is the base net netconvert produced: it becomes the
\* final net unchanged and stays so.
C6_FinalIsBase ==
    /\ [](C6_InjectorSkipped)
    /\ [][(NoNewRoad /\ pc[1] = "replace" /\ pc'[1] = "trips") =>
              (files.base.by = 1 /\ files'.final = files.base)]_vars
    /\ [][(NoNewRoad /\ files.final.by # 0) => files'.final = files.final]_vars

\* Such a request has run its simulation on the net of its own extract.
C6_Witness ==
    /\ NoNewRoad
    /\ Done
    /\ resp[1].status = "success"
    /\ files.final.by = 1
    /\ files.trace.net = files.final

\* ---------------------------------------------------------------- C7
ValidRoad == data[1].kind = "object" /\ data[1].new_road.kind = "valid"

\* The raw (lon, lat) of the proposal's endpoints: endpoint[1], endpoint[0].
FromRaw == <<RawCoord(data[1].new_road.from[2]), RawCoord(data[1].new_road.from[1])>>
ToRaw == <<RawCoord(data[1].new_road.to[2]), RawCoord(data[1].new_road.to[1])>>

InjectorPcs == {"nodes", "attributes", "nodes2", "edges", "inject"}

\* C7: with a road proposal, a failure of steps 1-3 (parse error, missing
\* library, transform exception) is not answered: the coordinates are the
\* raw ones, the node and edge files are written and the second
\* netconvert is run; an error answer comes from a tool that failed later.
C7_FallbackNotFatal ==
    \A i \in DOMAIN log[1] :
        (ValidRoad /\ log[1][i].stage = "project") =>
            /\ log[1][i].ok
            /\ log[1][i].why # "transformed" =>
                  (<<coords[1].x1, coords[1].y1>> = FromRaw
                   /\ <<coords[1].x2, coords[1].y2>> = ToRaw)
            /\ pc[1] \in InjectorPcs \/ HasEntry("inject")
            /\ HasEntry("inject") => (Count("nodes") = 2 /\ Count("edges") = 1)
            /\ (Done /\ resp[1].status = "error") =>
                  \E j \in DOMAIN log[1] :
                      j > i /\ log[1][j].stage \in ToolStages /\ ~log[1][j].ok

\* The transform raised and the injection went on to its netconvert run.
C7_Witness ==
    /\ ValidRoad
    /\ \E i \in DOMAIN log[1] :
          log[1][i].stage = "project" /\ log[1][i].why = "transform exception"
    /\ EntryOk("inject")

\* ---------------------------------------------------------------- C8
NoTransform ==
    \E i \in DOMAIN log[1] :
        log[1][i].stage = "project" /\ log[1][i].why \in {"no library", "no projection"}

\* C8: without a transform library or without a projection descriptor the
\* nodes "start" and "end" are written at the raw (lon, lat) of the
\* proposal's from and to, and the request succeeds when the later stages do.
C8_RawNodes ==
    (ValidRoad /\ NoTransform) =>
        /\ HasEntry("nodes") =>
              (files.nod.by = 1 /\ files.nod.start = FromRaw /\ files.nod.end = ToRaw)
        /\ files.final.by # 0 => files.final.road.nod = files.nod
        /\ (Done /\ \A i \in DOMAIN log[1] : log[1][i].ok) =>
              resp[1].status = "success"

C8_Witness ==
    /\ ValidRoad
    /\ \E i \in DOMAIN log[1] :
          log[1][i].stage = "project" /\ log[1][i].why = "no library"
    /\ Done
    /\ resp[1].status = "success"
    /\ files.nod.start = FromRaw

\* ---------------------------------------------------------------- C9
\* The samples of a vehicle are in ascending order of time.
Ascending(samples) ==
    \A i \in 1..(Len(samples) - 1) : FloatLe(samples[i].time, samples[i + 1].time)

Output == files.json.vehicles

\* The times of the timesteps of a raw trace, in document order.
StepTimes(doc) ==
    LET IsStep(e) == e.tag = "timestep"
        steps == SelectSeq(doc, IsStep)
    IN  [i \in 1..Len(steps) |->
            IF steps[i].time = AbsentAttr THEN F(0) ELSE Float(steps[i].time)]

\* C9 as stated: for every raw trace, every vehicle's samples are in
\* ascending order of time.
C9_AlwaysAscending ==
    cli = "done" => \A vid \in DOMAIN Output : Ascending(Output[vid])

\* The timesteps of the raw trace are in ascending order of time.
TimestepsAscending ==
    LET times == StepTimes(files.trace.doc)
    IN  \A i \in 1..Len(times) : \A j \in i..Len(times) : FloatLe(times[i], times[j])

\* C9, amended: for every raw trace whose timesteps are in ascending order
\* of time, every vehicle's samples are in ascending order of time.
C9_AscendingInput ==
    (cli = "done" /\ TimestepsAscending) =>
        \A vid \in DOMAIN Output : Ascending(Output[vid])

\* A vehicle sampled in two timesteps of different, ascending times.
C9_Witness ==
    /\ cli = "done"
    /\ TimestepsAscending
    /\ \E vid \in DOMAIN Output :
          Len(Output[vid]) >= 2 /\ Output[vid][1].time # Output[vid][2].time

\* --------------------------------------------------------------- C10
\* A vehicle record without an id, an x or a y.
LacksField(e) ==
    e.tag = "vehicle" /\ (e.id = NoneId \/ e.x = AbsentAttr \/ e.y = AbsentAttr)

\* The raw trace without those records.
WithoutLacking(trace) ==
    LET Keep(e) == ~LacksField(e)
    IN  [trace EXCEPT !.doc = SelectSeq(trace.doc, Keep)]

\* C10: the records without an id, an x or a y are skipped: the run raises
\* exactly when it raises on the trace without them, and what it writes is
\* what it writes for the trace without them.
C10_SkippedRecords ==
    cli \in {"done", "raised"} =>
        /\ cli = "raised" <=> ~convert(WithoutLacking(files.trace)).ok
        /\ cli = "done" => Output = convert(WithoutLacking(files.trace)).vehicles

\* A finished run over a timestep that holds a record lacking a field
\* beside a complete one.
C10_Witness ==
    /\ cli = "done"
    /\ Len(files.trace.doc) >= 3
    /\ files.trace.doc[1].tag = "timestep"
    /\ \E i \in 2..Len(files.trace.doc) : LacksField(files.trace.doc[i])
    /\ DOMAIN Output # {}

\* --------------------------------------------------------------- C11
\* The raw trace with the records at positions i and i+1 exchanged.
Exchanged(trace, i) ==
    [trace EXCEPT !.doc = [@ EXCEPT ![i] = trace.doc[i + 1], ![i + 1] = trace.doc[i]]]

\* The positions of two vehicle records that follow each other: both are
\* records of the same timestep.
Neighbours(doc) ==
    {i \in 1..(Len(doc) - 1) : doc[i].tag = "vehicle" /\ doc[i + 1].tag = "vehicle"}

\* The run ends as the run on `trace` would: same exception or same output.
SameResult(trace) ==
    /\ cli = "raised" <=> ~convert(trace).ok
    /\ cli = "done" => Output = convert(trace).vehicles

\* C11 as stated: exchanging two records of a timestep (and so permuting
\* the records of a timestep in any way) does not change the result.
C11_AnyOrder ==
    cli \in {"done", "raised"} =>
        \A i \in Neighbours(files.trace.doc) : SameResult(Exchanged(files.trace, i))

\* A record with an id, an x and a y.
Complete(e) ==
    e.tag = "vehicle" /\ e.id # NoneId /\ e.x # AbsentAttr /\ e.y # AbsentAttr

\* C11, amended: exchanging two records of a timestep does not change the
\* result unless both are complete records of the same vehicle; so the
\* result is the same for every order of the records of a timestep in
\* which no vehicle has two complete records.
C11_DistinctVehicles ==
    cli \in {"done", "raised"} =>
        \A i \in Neighbours(files.trace.doc) :
            LET a == files.trace.doc[i]
                b == files.trace.doc[i + 1]
            IN  ~(Complete(a) /\ Complete(b) /\ a.id = b.id) =>
                    SameResult(Exchanged(files.trace, i))

\* A timestep with complete records of two vehicles, converted.
C11_Witness ==
    /\ cli = "done"
    /\ \E i \in Neighbours(files.trace.doc) :
          /\ i > 1
          /\ files.trace.doc[1].tag = "timestep"
          /\ Complete(files.trace.doc[i])
          /\ Complete(files.trace.doc[i + 1])
          /\ files.trace.doc[i].id # files.trace.doc[i + 1].id
          /\ Cardinality(DOMAIN Output) = 2

\* --------------------------------------------------------------- C12
\* The files the next statement of request r reads were written by r.
ReadsOwn(r) ==
    /\ pc[r] = "netconvert" => files.osm.by = r
    /\ pc[r] \in {"project", "replace", "inject"} => files.base.by = r
    /\ pc[r] = "inject" => (files.nod.by = r /\ files.edg.by = r)
    /\ pc[r] \in {"trips", "sumo"} => files.final.by = r
    /\ pc[r] = "sumo" => files.trips.by = r
    /\ pc[r] = "convert" => files.trace.by = r
    /\ pc[r] = "load" => files.json.by = r

\* Every file was made from files of the request that wrote it.
OwnProvenance ==
    /\ files.base.by # 0 => files.base.osm.by = files.base.by
    /\ files.final.by # 0 => files.final.osm.by = files.final.by
    /\ files.trips.by # 0 => files.trips.net.by = files.trips.by
    /\ files.trace.by # 0 =>
          (files.trace.net.by = files.trace.by /\ files.trace.trips.by = files.trace.by)

\* C12: under any interleaving of two requests, no file read by a stage
\* of one request was written by a stage of the other.
C12_OwnArtifacts == OwnProvenance /\ \A r \in Reqs : ReadsOwn(r)

\* --------------------------------------------------------------- C13
\* The attributes every proposed road has: 3 lanes, speed 33.33, motorway.
RoadAttributes == <<"numLanes=3", "speed=33.33", "type=highway.motorway">>

Has(attrs, a) == \E i \in DOMAIN attrs : attrs[i] = a

\* C13: the attributes are a function of infra_type: "flyover" gives the
\* road attributes, a priority and a name; "tunnel" the road attributes
\* and a name, nothing else; any other or no infra_type the road
\* attributes alone.  They are what the edge file is written with.
C13_AttributePolicy ==
    attributes[1] # NoAttributes =>
        LET it == data[1].infra_type
            attrs == attributes[1]
        IN  /\ SubSeq(attrs, 1, 3) = RoadAttributes
            /\ it = "flyover" =>
                  /\ Has(attrs, "priority=20")
                  /\ Has(attrs, "name=Proposed Flyover")
                  /\ attrs = RoadAttributes \o <<"priority=20", "shape=",
                                "spreadType=center", "name=Proposed Flyover">>
            /\ it = "tunnel" => attrs = RoadAttributes \o <<"name=Proposed Tunnel">>
            /\ it \notin {"flyover", "tunnel"} => attrs = RoadAttributes
            /\ files.edg.by = 1 => files.edg.attributes = attrs

\* The edge of a tunnel has been written.
C13_Witness ==
    /\ data[1].infra_type = "tunnel"
    /\ files.edg.by = 1
    /\ Len(files.edg.attributes) = 4

\* --------------------------------------------------------------- C14
\* The stages of the pipeline, in the order of the claim.
Stages == <<"fetch", "netconvert", "inject", "randomTrips", "sumo", "convert">>

\* The entry i of the log is preceded by a successful entry of `stage`.
After(i, stage) == \E j \in 1..(i - 1) : log[1][j].stage = stage /\ log[1][j].ok

\* The stage that has to have succeeded before `stage` starts.
Previous(stage) ==
    CASE stage = "netconvert" -> "fetch"
      [] stage = "inject" -> "netconvert"
      [] stage = "randomTrips" -> IF NoNewRoad THEN "netconvert" ELSE "inject"
      [] stage = "sumo" -> "randomTrips"
      [] stage = "convert" -> "sumo"

\* C14: the stages run in the order fetch, netconvert, (inject with a
\* new_road), randomTrips, sumo, convert; one starts only after the one
\* before it has succeeded, the simulator only after the trip generator
\* has succeeded on the final net, and each runs at most once.
C14_StageOrder ==
    /\ \A n \in DOMAIN Stages : Count(Stages[n]) <= 1
    /\ \A i \in DOMAIN log[1] :
          /\ i < Len(log[1]) => log[1][i].ok
          /\ log[1][i].stage \in {"netconvert", "inject", "randomTrips", "sumo", "convert"}
                => After(i, Previous(log[1][i].stage))
    /\ HasEntry("inject") => ~NoNewRoad
    /\ HasEntry("sumo") =>
          /\ EntryOk("randomTrips")
          /\ files.final.by = 1
          /\ files.trips.by = 1 /\ files.trips.net = files.final

\* All six stages have run for a request with a new_road.
C14_Witness ==
    /\ \A n \in DOMAIN Stages : Count(Stages[n]) = 1
    /\ ValidRoad

\* --------------------------------------------------------------- C15
\* No stage of the pipeline has been run a second time.
NoRetry == \A n \in DOMAIN Stages : Count(Stages[n]) <= 1

\* The request has stopped at the first stage that failed, if any.
StoppedAtFirstError == \A i \in DOMAIN log[1] : ~log[1][i].ok => i = Len(log[1])

\* C15: when every external call returns, a started request ends with a
\* response; a response once given is the only one, the request does
\* nothing after it, it stops at its first failure and retries no stage.
C15_Terminates ==
    /\ <>(Done /\ resp[1] # NoResp)
    /\ [](resp[1] # NoResp <=> Done)
    /\ [][~Done]_vars
    /\ [](NoRetry /\ StoppedAtFirstError)

\* A request has ended with an error after a stage failed.
C15_Witness ==
    /\ Done
    /\ resp[1].status = "error"
    /\ log[1] # << >> /\ ~log[1][Len(log[1])].ok

\* --------------------------------------------------------------- C16
\* Every stage the request has to run has succeeded, conversion included.
AllStagesSucceeded ==
    /\ \A i \in DOMAIN log[1] : log[1][i].ok
    /\ \A n \in DOMAIN Stages : Stages[n] # "inject" => EntryOk(Stages[n])
    /\ ~NoNewRoad => EntryOk("inject")
    /\ files.json.by = 1

\* C16: "success" and "warning" go with HTTP 200, "error" with 400 or 500;
\* the response has data exactly when it is "success"; and "success" is
\* sent only when every stage, conversion included, has succeeded.
C16_Consistent ==
    resp[1] # NoResp =>
        /\ resp[1].status \in {"success", "warning", "error"}
        /\ resp[1].status \in {"success", "warning"} => resp[1].http = 200
        /\ resp[1].status = "error" => resp[1].http \in {400, 500}
        /\ resp[1].hasData <=> resp[1].status = "success"
        /\ resp[1].status = "success" =>
              AllStagesSucceeded /\ resp[1].data = files.json.vehicles

\* A success response that carries the samples of a vehicle.
C16_Witness ==
    /\ resp[1].status = "success"
    /\ resp[1].hasData
    /\ DOMAIN resp[1].data # {}

\* --------------------------------------------------------------- C17
\* The timestep that contains the element i of a raw trace: the last
\* timestep opened before it (0: none, the element is no record of a
\* timestep and no part of the trace's data).
Containing(doc, i) ==
    LET before == {j \in 1..(i - 1) : doc[j].tag = "timestep"}
    IN  IF before = {} THEN 0 ELSE CHOOSE j \in before : \A k \in before : k <= j

\* The vehicle records of a raw trace that have an id, an x and a y.
Records(doc) == {i \in DOMAIN doc : Complete(doc[i]) /\ Containing(doc, i) # 0}

\* The k-th smallest member of a set of numbers.
Nth(I, k) == CHOOSE i \in I : Cardinality({j \in I : j < i}) = k - 1

\* The sample the record i of a raw trace stands for.
Sample(doc, i) ==
    LET ts == doc[Containing(doc, i)]
    IN  [time |-> IF ts.time = AbsentAttr THEN F(0) ELSE Float(ts.time),
         lat |-> Float(doc[i].y),
         lon |-> Float(doc[i].x)]

\* The number of samples of an output.
Samples(vehicles) ==
    Cardinality(UNION {{<<vid, k>> : k \in DOMAIN vehicles[vid]} : vid \in DOMAIN vehicles})

\* C17: in the output of convert() every vehicle has at least one sample;
\* there are as many samples as records with an id, an x and a y; and
\* each sample has the time of the timestep that contains its record,
\* its lat from the record's y and its lon from the record's x.
C17_Samples ==
    cli = "done" =>
        LET doc == files.trace.doc
            Of(vid) == {i \in Records(doc) : doc[i].id = vid}
        IN  /\ \A vid \in DOMAIN Output : Output[vid] # << >>
            /\ Samples(Output) = Cardinality(Records(doc))
            /\ DOMAIN Output = {doc[i].id : i \in Records(doc)}
            /\ \A vid \in DOMAIN Output :
                  /\ Len(Output[vid]) = Cardinality(Of(vid))
                  /\ \A k \in DOMAIN Output[vid] :
                        Output[vid][k] = Sample(doc, Nth(Of(vid), k))

\* A vehicle with samples of two timesteps, whose lat and lon differ.
C17_Witness ==
    /\ cli = "done"
    /\ \E vid \in DOMAIN Output :
          /\ Len(Output[vid]) = 2
          /\ Output[vid][1].time # Output[vid][2].time
          /\ Output[vid][1].lat # Output[vid][1].lon

\* --------------------------------------------------------------- C18
\* The request has been answered by the precondition error.
PreconditionError == resp[1] = Response("error", 400)

\* C18: without SUMO_HOME the request is answered with the precondition
\* error (400) before its body is looked at, whatever the body is: the
\* bbox is never read, no stage is run and no file is written.
C18_PreconditionFirst ==
    ~SUMO_HOME =>
        /\ pc[1] \in {"start", "done"}
        /\ Done => PreconditionError
        /\ bbox[1] = NoBBox /\ coords[1] = NoCoords /\ attributes[1] = NoAttributes
        /\ log[1] = << >>
        /\ files = NoFiles

\* Without SUMO_HOME, a request whose body is no object, or one with a
\* valid bbox, has been answered.
C18_Witness ==
    /\ ~SUMO_HOME
    /\ Done
    /\ \/ data[1].kind # "object"
       \/ (~BBoxFalsy(data[1].bbox) /\ ~UnpackRaises(data[1].bbox))

====
